---- MODULE Spec2Model ----
(***************************************************************************)
(* A model of qri-io/value: the value model (Link, Iterator) of value.go   *)
(* and the filter engine of filter/ (parser, evaluator, lazy stream).      *)
(*                                                                         *)
(* Go values are tagged tuples <<kind, payload>>; the kind is the dynamic  *)
(* type the code's type switches test.  Text (strings, keys, token text)   *)
(* is a tuple of one-character strings, so that len, indexing and slicing  *)
(* are computed and not assumed.                                           *)
(***************************************************************************)
EXTENDS Integers, Sequences, FiniteSets, TLC

VARIABLES
    lnk,      \* value.go link struct: [path, value, resolved]
    lpath,    \* history: the path NewLink was called with
    lret,     \* history: the last Link call and what it returned
    itr,      \* value.go iterator struct: [i, values]
    dest,     \* the variable the caller passes to Scan by reference
    iret,     \* history: the last Iterator call and what it returned
    nTrue,    \* history: how many Next() calls returned true
    closes,   \* history: how many times Close() was called
    src,      \* Filter.src, as the tokens the scanner yields for it
    source,   \* the source value Apply is called with
    heap,     \* the objects values point to: the Iterator, the byte stream, the Resolver
    filters,  \* the pipeline stages parsed from src
    k,        \* Apply's loop position: stages applied so far
    val,      \* Apply's val
    err,      \* Apply's err ("" is nil)
    pc        \* "parse", "apply", "unpack", "done"

linkVars == <<lnk, lpath, lret>>
iterVars == <<itr, dest, iret, nTrue, closes>>
filtVars == <<src, source, heap, filters, k, val, err, pc>>
vars == <<linkVars, iterVars, filtVars>>

-----------------------------------------------------------------------------
(* Bounds *)

MaxLen == 2        \* longest string, byte sequence and ordered sequence
MaxNum == 2        \* largest integer drawn as an input number
MaxCalls == 4      \* calls made on one Iterator after it is exhausted or closed

-----------------------------------------------------------------------------
(* The value model: value.go lines 10-41 *)

Null       == <<"nil", 0>>
BoolV(b)    == <<"bool", b>>
IntV(n)     == <<"int", n>>
FloatV(n)   == <<"float64", n>>
ByteV(c)    == <<"byte", c>>
StrV(s)     == <<"string", s>>
BytesV(s)   == <<"[]byte", s>>
SliceV(s)   == <<"[]interface{}", s>>
MapV(m)     == <<"map[string]interface{}", m>>
IMapV(m)    == <<"map[interface{}]interface{}", m>>

Kind(v)    == v[1]
Val(v)     == v[2]

Chars      == {"a", "b"}
Keys       == {<<"a">>, <<"b">>}

SeqsUpTo(S, n) == UNION {[1..m -> S] : m \in 0..n}

Scalars ==
    {Null, BoolV(TRUE), BoolV(FALSE), ByteV("a")}
      \cup {IntV(n) : n \in 0..MaxNum}
      \cup {FloatV(n) : n \in 1..MaxNum}
      \cup {StrV(s) : s \in SeqsUpTo(Chars, MaxLen)}

-----------------------------------------------------------------------------
(* Link: value.go lines 66-89 *)

NewLink(path) == [path |-> path, value |-> Null, resolved |-> FALSE]

LinkPath(l) == l.path

LinkValue(l) == <<l.value, l.resolved>>

\* mutant: the value is cached and the flag is left alone
LinkResolvedNoFlag(l, v) == [l EXCEPT !.value = v]

LinkResolved(l, v) == [l EXCEPT !.value = v, !.resolved = TRUE]

Paths == {<<"a">>, <<"b">>, <<"a", "b">>}

LinkInit ==
    /\ \E p \in Paths : lnk = NewLink(p) /\ lpath = p
    /\ lret = <<"NewLink">>

CallPath ==
    /\ lret' = <<"Path", LinkPath(lnk)>>
    /\ UNCHANGED <<lnk, lpath, iterVars, filtVars>>

CallValue ==
    /\ lret' = <<"Value", LinkValue(lnk)>>
    /\ UNCHANGED <<lnk, lpath, iterVars, filtVars>>

CallResolved ==
    \E x \in Scalars :
        /\ lnk' = LinkResolved(lnk, x)
        /\ lret' = <<"Resolved", x>>
        /\ UNCHANGED <<lpath, iterVars, filtVars>>

-----------------------------------------------------------------------------
(* Iterator: value.go lines 122-170 *)

NewIterator(values) == [i |-> -1, values |-> values]

\* mutant: the bound is off by one
IteratorNextOffByOne(it) ==
    IF it.i >= Len(it.values)
    THEN [it |-> it, more |-> FALSE]
    ELSE [it |-> [it EXCEPT !.i = it.i + 1], more |-> TRUE]

\* Next: the advanced iterator and the returned flag
IteratorNext(it) ==
    IF it.i >= Len(it.values) - 1
    THEN [it |-> it, more |-> FALSE]
    ELSE [it |-> [it EXCEPT !.i = it.i + 1], more |-> TRUE]

\* Scan(dest): canSet is whether dest is a pointer to a settable variable.
\* Reading values[i] with the cursor still at -1 is an index panic.
IteratorScan(it, d, canSet) ==
    IF ~canSet
    THEN [dest |-> d, err |-> "expected pointer value for scan"]
    ELSE IF it.i < 0 \/ it.i >= Len(it.values)
    THEN [dest |-> d, err |-> "panic: index out of range"]
    ELSE [dest |-> it.values[it.i + 1], err |-> ""]

IteratorKey(it) == it.i

IteratorClose(it) == [it |-> it, err |-> ""]

IterElems == {Null, StrV(<<"a">>), IntV(2), FloatV(1), BoolV(FALSE)}

IterInit ==
    /\ \E vs \in SeqsUpTo(IterElems, MaxLen + 1) : itr = NewIterator(vs)
    /\ dest = Null
    /\ iret = <<"NewIterator">>
    /\ nTrue = 0
    /\ closes = 0

CallNext ==
    /\ LET r == IteratorNext(itr) IN
        /\ itr' = r.it
        /\ iret' = <<"Next", r.more>>
        /\ nTrue' = IF r.more THEN nTrue + 1 ELSE nTrue
    /\ UNCHANGED <<dest, closes, linkVars, filtVars>>

CallScan ==
    \E canSet \in BOOLEAN :
        LET r == IteratorScan(itr, dest, canSet) IN
            /\ dest' = r.dest
            /\ iret' = <<"Scan", r.err>>
            /\ UNCHANGED <<itr, nTrue, closes, linkVars, filtVars>>

CallKey ==
    /\ iret' = <<"Key", IteratorKey(itr)>>
    /\ UNCHANGED <<itr, dest, nTrue, closes, linkVars, filtVars>>

CallClose ==
    /\ closes < MaxCalls
    /\ LET r == IteratorClose(itr) IN
        /\ itr' = r.it
        /\ iret' = <<"Close", r.err>>
    /\ closes' = closes + 1
    /\ UNCHANGED <<dest, nTrue, linkVars, filtVars>>

-----------------------------------------------------------------------------
(* Values defined by behaviour, and the objects they point to *)

IteratorV    == <<"Iterator", 0>>       \* a value.Iterator: the heap's it
ReadCloserV  == <<"io.ReadCloser", 0>>  \* a value.ByteReader: the heap's rd
LinkV(p)     == <<"Link", p>>           \* a value.Link with path p
NumericLiteralV(n) == <<"fNumericLiteral", n>>

\* stream.go valueStream: val = nil is Null, vals = nil is the empty tuple
\* (the code treats a nil and an empty vals alike: Next returns false)
StreamV(v, vs) == <<"*valueStream", [i |-> 0, done |-> FALSE, val |-> v, vals |-> vs]>>

NUL == "NUL"    \* the zero byte of a freshly made buffer

\* an evaluation result: out, err ("" is nil) and the heap afterwards
Res(out, e, h) == [out |-> out, err |-> e, h |-> h]

IsPanic(e) == e \in {"panic: index out of range", "panic: slice bounds out of range",
                     "panic: nil pointer dereference"}

\* Resolver: the external collaborator; its answer is part of the environment
Resolve(h, link) ==
    IF h.resolveErr THEN Res(Null, "resolve", h) ELSE Res(h.resolved, "", h)

\* Iterator calls on the heap's iterator.  The struct of value.go never fails
\* to Scan into &v or to Close; fault stands for another implementation of the
\* Iterator interface whose Scan or Close returns an error.
HNext(h) == LET r == IteratorNext(h.it) IN [h |-> [h EXCEPT !.it = r.it], more |-> r.more]

HScan(h) ==
    IF h.it.fault = "scan" THEN [v |-> Null, err |-> "scan"]
    ELSE LET r == IteratorScan(h.it, Null, TRUE) IN [v |-> r.dest, err |-> r.err]

HClose(h) ==
    [h |-> [h EXCEPT !.it.closes = @ + 1],
     err |-> IF h.it.fault = "close" THEN "close" ELSE IteratorClose(h.it).err]

\* `return out, it.Close()`
ReturnClose(out, h) == LET c == HClose(h) IN Res(out, c.err, c.h)

\* io.Reader.Read(buf) with len(buf) = n, for a bytes.Buffer behind a NopCloser:
\* the bytes read, the error, the reader afterwards
Min(a, b) == IF a < b THEN a ELSE b

Read(h, n) ==
    LET rem == Len(h.rd.data) - h.rd.pos
        m == Min(n, rem) IN
    IF h.rd.fault THEN [got |-> <<>>, err |-> "read", h |-> h]
    ELSE IF rem = 0
    THEN [got |-> <<>>, err |-> IF n = 0 THEN "" ELSE "EOF", h |-> h]
    ELSE [got |-> SubSeq(h.rd.data, h.rd.pos + 1, h.rd.pos + m), err |-> "",
          h |-> [h EXCEPT !.rd.pos = @ + m]]

ReadAll(h) ==
    IF h.rd.fault THEN [got |-> <<>>, err |-> "read", h |-> h]
    ELSE [got |-> SubSeq(h.rd.data, h.rd.pos + 1, Len(h.rd.data)), err |-> "",
          h |-> [h EXCEPT !.rd.pos = Len(h.rd.data)]]

RdClose(h) == [h EXCEPT !.rd.closes = @ + 1]

\* make([]byte, n) with the bytes read copied to its front
Buf(got, n) == [j \in 1..n |-> IF j <= Len(got) THEN got[j] ELSE NUL]

-----------------------------------------------------------------------------
(* Lazy stream: stream.go (the second file of src/filter/parser.go) *)

\* mutant: an ordered sequence is streamed as one value
newStreamWhole(in, h) ==
    CASE Kind(in) \in {"nil", "bool", "byte", "int", "float64", "string", "[]byte",
                       "[]interface{}", "*valueStream",
                       "map[interface{}]interface{}", "map[string]interface{}"}
            -> Res(StreamV(in, <<>>), "", h)
      [] OTHER -> Res(Null, "unrecognized type", h)

newStream(in, h) ==
    CASE Kind(in) = "*valueStream" -> Res(StreamV(in, <<>>), "", h)
      [] Kind(in) = "[]interface{}" -> Res(StreamV(Null, Val(in)), "", h)
      [] Kind(in) \in {"nil", "bool", "byte", "int", "float64", "string", "[]byte",
                       "map[interface{}]interface{}", "map[string]interface{}"}
            -> Res(StreamV(in, <<>>), "", h)
      [] OTHER -> Res(Null, "unrecognized type", h)

\* valueStream.Next: more, the value stored through v, the stream afterwards
StreamNext(vs) ==
    LET s == Val(vs) IN
    IF Kind(s.val) = "nil" /\ s.vals = <<>>
    THEN [more |-> FALSE, v |-> Null, vs |-> vs]
    ELSE IF Kind(s.val) # "nil"
    THEN [more |-> TRUE, v |-> s.val, vs |-> <<"*valueStream", [s EXCEPT !.val = Null]>>]
    ELSE IF s.i = Len(s.vals) \/ s.done
    THEN [more |-> FALSE, v |-> Null, vs |-> vs]
    ELSE [more |-> TRUE, v |-> s.vals[s.i + 1],
          vs |-> <<"*valueStream", [s EXCEPT !.i = @ + 1]>>]

-----------------------------------------------------------------------------
(* Filter nodes: filter.go.  A node is a tuple whose first element is its Go type *)

NilFilter               == <<"nil", 0>>
fStringLiteral(s)       == <<"fStringLiteral", s>>
fNumericLiteral(n)      == <<"fNumericLiteral", n>>
fLength                 == <<"fLength", 0>>
fSelector(sels)         == <<"fSelector", sels>>
fIdentity               == <<"fIdentity", 0>>
fKeySelector(name)      == <<"fKeySelector", name>>
fIndexSelector(n)       == <<"fIndexSelector", n>>
fIterateAllSeletor      == <<"fIterateAllSeletor", FALSE>>
fIndexRangeSelector(start, stop, all) == <<"fIndexRangeSelector", start, stop, all>>
fBinaryOp(left, op, right) == <<"fBinaryOp", left, op, right>>
fSlice(fs)              == <<"fSlice", fs>>
fObjectMapping(m)       == <<"fObjectMapping", m>>

\* Go ranges over a map in an order it does not specify: the heap's order flag
\* picks one of the two orders of a two-key mapping
RECURSIVE SetToSeq(_)
SetToSeq(S) ==
    IF S = {} THEN <<>>
    ELSE LET x == CHOOSE y \in S : TRUE IN <<x>> \o SetToSeq(S \ {x})

Reverse(s) == [j \in 1..Len(s) |-> s[Len(s) + 1 - j]]

RangeOrder(m, h) ==
    LET s == SetToSeq(DOMAIN m) IN IF h.order THEN Reverse(s) ELSE s

RECURSIVE apply(_, _, _)
RECURSIVE applyToStreamLoop(_, _, _, _)
RECURSIVE unpackLoop(_, _)
RECURSIVE fLengthLoop(_, _)
RECURSIVE fSelectorLoop(_, _, _, _)
RECURSIVE fKeySelectorLoop(_, _, _, _, _)
RECURSIVE fIndexSelectorLoop(_, _, _)
RECURSIVE fIndexRangeSelectorLoop(_, _, _, _)
RECURSIVE fSliceLoop(_, _, _, _, _)
RECURSIVE fObjectMappingLoop(_, _, _, _, _)

\* stream.go applyToStream: `return res, err` returns a nil res
applyToStreamLoop(vs, f, h, vals) ==
    LET n == StreamNext(vs) IN
    IF ~n.more THEN Res(SliceV(vals), "", h)
    ELSE LET r == apply(f, n.v, h) IN
         IF r.err # "" THEN Res(Null, r.err, r.h)
         ELSE applyToStreamLoop(n.vs, f, r.h, Append(vals, r.out))

applyToStream(vs, f, h) == applyToStreamLoop(vs, f, h, <<>>)

\* unpackValueStreams: only a stream is unpacked, and only the streams it yields
unpackLoop(vs, vals) ==
    LET n == StreamNext(vs) IN
    IF ~n.more THEN SliceV(vals)
    ELSE LET v == IF Kind(n.v) = "*valueStream" THEN unpackLoop(n.v, <<>>) ELSE n.v
         IN unpackLoop(n.vs, Append(vals, v))

unpackValueStreams(in) ==
    IF Kind(in) = "*valueStream" THEN unpackLoop(in, <<>>) ELSE in

fStringLiteralApply(f, in, h) ==
    IF Kind(in) = "*valueStream" THEN applyToStream(in, f, h)
    ELSE Res(StrV(f[2]), "", h)

fNumericLiteralApply(f, in, h) == Res(f, "", h)

fLengthLoop(h, i) ==
    LET n == HNext(h) IN
    IF n.more THEN fLengthLoop(n.h, i + 1) ELSE ReturnClose(IntV(i), n.h)

\* mutant: inputs without a length are an error
fLengthApplyStrict(f, in, h) ==
    IF Kind(in) = "Iterator" THEN fLengthLoop(h, 0)
    ELSE CASE Kind(in) = "*valueStream" -> applyToStream(in, f, h)
           [] Kind(in) \in {"string", "[]byte", "[]interface{}"}
                -> Res(IntV(Len(Val(in))), "", h)
           [] Kind(in) \in {"map[interface{}]interface{}", "map[string]interface{}"}
                -> Res(IntV(Cardinality(DOMAIN Val(in))), "", h)
           [] OTHER -> Res(Null, "unexpected type", h)

fLengthApply(f, in, h) ==
    IF Kind(in) = "Iterator" THEN fLengthLoop(h, 0)
    ELSE CASE Kind(in) = "*valueStream" -> applyToStream(in, f, h)
           [] Kind(in) \in {"string", "[]byte", "[]interface{}"}
                -> Res(IntV(Len(Val(in))), "", h)
           [] Kind(in) \in {"map[interface{}]interface{}", "map[string]interface{}"}
                -> Res(IntV(Cardinality(DOMAIN Val(in))), "", h)
           [] Kind(in) \in {"nil", "bool", "byte", "int", "float64"}
                -> Res(Null, "", h)
           [] OTHER -> Res(Null, "unexpected type", h)

\* mutant: a failing step does not end the chain
fSelectorLoopOn(f, j, out, h) ==
    IF j > Len(f[2]) THEN Res(out, "", h)
    ELSE LET r == apply(f[2][j], out, h) IN
         fSelectorLoop(f, j + 1, r.out, r.h)

fSelectorLoop(f, j, out, h) ==
    IF j > Len(f[2]) THEN Res(out, "", h)
    ELSE LET r == apply(f[2][j], out, h) IN
         IF r.err # "" THEN r ELSE fSelectorLoop(f, j + 1, r.out, r.h)

fSelectorApply(f, in, h) == fSelectorLoop(f, 1, in, h)

fIdentityApply(f, in, h) == Res(in, "", h)

\* mutant: the results are collected in reverse
fKeySelectorLoopPrepend(f, v, j, res, h) ==
    IF j > Len(v) THEN Res(SliceV(res), "", h)
    ELSE LET r == apply(f, v[j], h) IN
         IF r.err # "" THEN Res(Null, r.err, r.h)
         ELSE fKeySelectorLoop(f, v, j + 1, <<r.out>> \o res, r.h)

fKeySelectorLoop(f, v, j, res, h) ==
    IF j > Len(v) THEN Res(SliceV(res), "", h)
    ELSE LET r == apply(f, v[j], h) IN
         IF r.err # "" THEN Res(Null, r.err, r.h)
         ELSE fKeySelectorLoop(f, v, j + 1, Append(res, r.out), r.h)

\* v[string(f)]: the stored value, or nil when the key is missing
MapIndex(m, key) == IF key \in DOMAIN m THEN m[key] ELSE Null

fKeySelectorSwitch(f, in, h) ==
    CASE Kind(in) = "*valueStream" -> applyToStream(in, f, h)
      [] Kind(in) \in {"map[interface{}]interface{}", "map[string]interface{}"}
            -> Res(MapIndex(Val(in), f[2]), "", h)
      [] Kind(in) = "[]interface{}" -> fKeySelectorLoop(f, Val(in), 1, <<>>, h)
      [] Kind(in) \in {"nil", "bool", "byte", "int", "float64", "string", "[]byte"}
            -> Res(Null, "", h)
      [] OTHER -> Res(Null, "unexpected type", h)

fKeySelectorApply(f, in, h) ==
    IF Kind(in) = "Link"
    THEN LET r == Resolve(h, in) IN
         IF r.err # "" THEN Res(Null, r.err, r.h) ELSE fKeySelectorSwitch(f, r.out, r.h)
    ELSE fKeySelectorSwitch(f, in, h)

fIndexSelectorLoop(f, i, h) ==
    LET n == HNext(h) IN
    IF ~n.more THEN ReturnClose(Null, n.h)
    ELSE IF i = f[2]
    THEN LET s == HScan(n.h) IN
         IF s.err # "" THEN Res(Null, s.err, n.h) ELSE ReturnClose(s.v, n.h)
    ELSE fIndexSelectorLoop(f, i + 1, n.h)

\* v[int(f)]: an index outside 0..len-1 panics
Index(v, n, h) ==
    IF n < 0 \/ n >= Len(Val(v)) THEN Res(Null, "panic: index out of range", h)
    ELSE IF Kind(v) = "[]interface{}" THEN Res(Val(v)[n + 1], "", h)
    ELSE Res(ByteV(Val(v)[n + 1]), "", h)

fIndexSelectorSwitch(f, in, h) ==
    IF Kind(in) = "Iterator" THEN fIndexSelectorLoop(f, 0, h)
    ELSE CASE Kind(in) = "*valueStream" -> applyToStream(in, f, h)
           [] Kind(in) \in {"string", "[]byte"} -> Index(in, f[2], h)
           [] Kind(in) = "[]interface{}" -> Index(in, f[2], h)
           [] Kind(in) \in {"nil", "bool", "byte", "int", "float64",
                            "map[string]interface{}", "map[interface{}]interface{}"}
                -> Res(Null, "", h)
           [] OTHER -> Res(Null, "unexpected type", h)

fIndexSelectorApply(f, in, h) ==
    IF Kind(in) = "Link"
    THEN LET r == Resolve(h, in) IN
         IF r.err # "" THEN Res(Null, r.err, r.h) ELSE fIndexSelectorSwitch(f, r.out, r.h)
    ELSE fIndexSelectorSwitch(f, in, h)

fIterateAllSeletorPass(in, h) ==
    IF Kind(in) = "Iterator" THEN Res(in, "", h) ELSE newStream(in, h)

fIterateAllSeletorApply(f, in, h) ==
    IF Kind(in) = "Link"
    THEN LET r == Resolve(h, in) IN
         IF r.err # "" THEN Res(Null, r.err, r.h) ELSE fIterateAllSeletorPass(r.out, r.h)
    ELSE fIterateAllSeletorPass(in, h)

fIndexRangeSelectorLoop(offset, limit, res, h) ==
    LET n == HNext(h) IN
    IF ~n.more THEN ReturnClose(SliceV(res), n.h)
    ELSE IF offset - 1 > 0
    THEN fIndexRangeSelectorLoop(offset - 1, limit, res, n.h)
    ELSE LET s == HScan(n.h) IN
         IF s.err # "" THEN Res(Null, s.err, n.h)
         ELSE IF limit - 1 = 0 THEN ReturnClose(SliceV(Append(res, s.v)), n.h)
         ELSE fIndexRangeSelectorLoop(offset - 1, limit - 1, Append(res, s.v), n.h)

\* the io.ReadCloser branch; the deferred Close runs on every return
fIndexRangeSelectorRead(f, h) ==
    LET start == f[2]
        stop  == f[3]
        r1 == IF start > 0 THEN Read(h, start) ELSE [got |-> <<>>, err |-> "", h |-> h]
    IN
    IF r1.err # "" THEN Res(Null, r1.err, RdClose(r1.h))
    ELSE IF stop = 0
    THEN LET a == ReadAll(r1.h) IN Res(BytesV(a.got), a.err, RdClose(a.h))
    ELSE LET r2 == Read(r1.h, stop) IN Res(BytesV(Buf(r2.got, stop)), r2.err, RdClose(r2.h))

\* v[start:stop]: bounds outside 0 <= start <= stop <= len panic (a slice is
\* taken at its capacity, modelled as its length)
SliceExpr(v, start, stop, h) ==
    IF start < 0 \/ start > stop \/ stop > Len(Val(v))
    THEN Res(Null, "panic: slice bounds out of range", h)
    ELSE Res(<<Kind(v), SubSeq(Val(v), start + 1, stop)>>, "", h)

fIndexRangeSelectorSwitch(f, in, h) ==
    LET start == f[2]
        stop  == f[3]
        all   == f[4]
    IN
    IF Kind(in) = "Iterator" THEN fIndexRangeSelectorLoop(start, stop, <<>>, h)
    ELSE IF Kind(in) = "io.ReadCloser" THEN fIndexRangeSelectorRead(f, h)
    ELSE CASE Kind(in) = "*valueStream" -> applyToStream(in, f, h)
           [] Kind(in) = "string" ->
                IF all THEN Res(in, "", h) ELSE SliceExpr(in, start, stop, h)
           [] Kind(in) = "[]byte" ->
                IF all THEN Res(in, "", h) ELSE SliceExpr(in, start, stop, h)
           [] Kind(in) = "[]interface{}" ->
                IF all THEN Res(in, "", h)
                ELSE IF stop = 0 THEN SliceExpr(in, start, Len(Val(in)), h)
                ELSE SliceExpr(in, start, stop, h)
           [] Kind(in) \in {"nil", "bool", "byte", "int", "float64",
                            "map[string]interface{}", "map[interface{}]interface{}"}
                -> Res(Null, "", h)
           [] OTHER -> Res(Null, "unexpected type", h)

fIndexRangeSelectorApply(f, in, h) ==
    IF Kind(in) = "Link"
    THEN LET r == Resolve(h, in) IN
         IF r.err # "" THEN Res(Null, r.err, r.h)
         ELSE fIndexRangeSelectorSwitch(f, r.out, r.h)
    ELSE fIndexRangeSelectorSwitch(f, in, h)

\* normalizeValue: the value and its reflect.Kind; reflect.TypeOf(nil) is a nil
\* Type, and calling Kind on it is a nil pointer dereference
normalizeValue(in) ==
    CASE Kind(in) = "fNumericLiteral" -> [out |-> FloatV(Val(in)), rk |-> "Float64", err |-> ""]
      [] Kind(in) = "nil" -> [out |-> in, rk |-> "Invalid", err |-> "panic: nil pointer dereference"]
      [] Kind(in) = "int" -> [out |-> FloatV(Val(in)), rk |-> "Float64", err |-> ""]
      [] Kind(in) = "float64" -> [out |-> in, rk |-> "Float64", err |-> ""]
      [] OTHER -> [out |-> in, rk |-> Kind(in), err |-> ""]

fBinaryOpApply(f, in, h) ==
    LET l == apply(f[2], in, h) IN
    IF l.err # "" THEN Res(Null, l.err, l.h)
    ELSE LET left == normalizeValue(l.out) IN
    IF left.err # "" THEN Res(Null, left.err, l.h)
    ELSE LET r == apply(f[4], in, l.h) IN
    IF r.err # "" THEN Res(Null, r.err, r.h)
    ELSE LET right == normalizeValue(r.out) IN
    IF right.err # "" THEN Res(Null, right.err, r.h)
    ELSE IF f[3] = "tStar" /\ left.rk = "Float64" /\ right.rk = "Float64"
    THEN Res(FloatV(Val(left.out) * Val(right.out)), "", r.h)
    ELSE IF f[3] = "tPlus" /\ left.rk = "Float64" /\ right.rk = "Float64"
    THEN Res(FloatV(Val(left.out) + Val(right.out)), "", r.h)
    ELSE Res(Null, "binary operations are not finished", r.h)

\* mutant: each sub-filter receives the output of the one before it
fSliceLoopChained(f, in, j, vals, h) ==
    IF j > Len(f[2]) THEN Res(SliceV(vals), "", h)
    ELSE LET r == apply(f[2][j], in, h) IN
         IF r.err # "" THEN Res(Null, r.err, r.h)
         ELSE fSliceLoop(f, r.out, j + 1, Append(vals, r.out), r.h)

fSliceLoop(f, in, j, vals, h) ==
    IF j > Len(f[2]) THEN Res(SliceV(vals), "", h)
    ELSE LET r == apply(f[2][j], in, h) IN
         IF r.err # "" THEN Res(Null, r.err, r.h)
         ELSE fSliceLoop(f, in, j + 1, Append(vals, r.out), r.h)

fSliceBody(f, in, h) ==
    IF Kind(in) = "*valueStream" THEN applyToStream(in, f, h)
    ELSE fSliceLoop(f, in, 1, <<>>, h)

fSliceApply(f, in, h) ==
    IF Kind(in) = "Link"
    THEN LET r == Resolve(h, in) IN
         IF r.err # "" THEN Res(Null, r.err, r.h) ELSE fSliceBody(f, r.out, r.h)
    ELSE fSliceBody(f, in, h)

fObjectMappingLoop(f, in, keys, vals, h) ==
    IF keys = <<>> THEN Res(MapV(vals), "", h)
    ELSE LET key == Head(keys)
             r == apply(f[2][key], in, h) IN
         IF r.err # "" THEN Res(Null, r.err, r.h)
         ELSE fObjectMappingLoop(f, in, Tail(keys),
                  [x \in DOMAIN vals \cup {key} |-> IF x = key THEN r.out ELSE vals[x]], r.h)

fObjectMappingApply(f, in, h) ==
    IF Kind(in) = "*valueStream" THEN applyToStream(in, f, h)
    ELSE fObjectMappingLoop(f, in, RangeOrder(f[2], h), <<>>, h)

\* the method the filter interface dispatches to; a nil filter (the left operand
\* of a binary operator that starts an expression) is a nil pointer dereference
apply(f, in, h) ==
    CASE f[1] = "fStringLiteral"      -> fStringLiteralApply(f, in, h)
      [] f[1] = "fNumericLiteral"     -> fNumericLiteralApply(f, in, h)
      [] f[1] = "fLength"             -> fLengthApply(f, in, h)
      [] f[1] = "fSelector"           -> fSelectorApply(f, in, h)
      [] f[1] = "fIdentity"           -> fIdentityApply(f, in, h)
      [] f[1] = "fKeySelector"        -> fKeySelectorApply(f, in, h)
      [] f[1] = "fIndexSelector"      -> fIndexSelectorApply(f, in, h)
      [] f[1] = "fIterateAllSeletor"  -> fIterateAllSeletorApply(f, in, h)
      [] f[1] = "fIndexRangeSelector" -> fIndexRangeSelectorApply(f, in, h)
      [] f[1] = "fBinaryOp"           -> fBinaryOpApply(f, in, h)
      [] f[1] = "fSlice"              -> fSliceApply(f, in, h)
      [] f[1] = "fObjectMapping"      -> fObjectMappingApply(f, in, h)
      [] OTHER                        -> Res(Null, "panic: nil pointer dereference", h)

-----------------------------------------------------------------------------
(* Tokens: token.go.  A token is <<Type, Text>>; Pos is not modelled *)

Tok(type, text) == <<type, text>>
tEOF          == Tok("tEOF", <<>>)
tDot          == Tok("tDot", <<>>)
tComma        == Tok("tComma", <<>>)
tColon        == Tok("tColon", <<>>)
tPipe         == Tok("tPipe", <<>>)
tLeftBracket  == Tok("tLeftBracket", <<>>)
tRightBracket == Tok("tRightBracket", <<>>)
tLeftBrace    == Tok("tLeftBrace", <<>>)
tRightBrace   == Tok("tRightBrace", <<>>)
tPlus         == Tok("tPlus", <<>>)
tMinus        == Tok("tMinus", <<>>)
tStar         == Tok("tStar", <<>>)
tText(s)      == Tok("tText", s)
tNumber(s)    == Tok("tNumber", s)

Digits == {"0", "1", "2", "3", "4", "5", "6", "7", "8", "9"}

DigitVal(c) ==
    CASE c = "0" -> 0 [] c = "1" -> 1 [] c = "2" -> 2 [] c = "3" -> 3 [] c = "4" -> 4
      [] c = "5" -> 5 [] c = "6" -> 6 [] c = "7" -> 7 [] c = "8" -> 8 [] c = "9" -> 9

RECURSIVE DecVal(_)
DecVal(s) == IF s = <<>> THEN 0 ELSE 10 * DecVal(SubSeq(s, 1, Len(s) - 1)) + DigitVal(s[Len(s)])

\* strconv.ParseInt(text, 10, 64) of the digits-and-dots text of a tNumber
ParseInt(text) ==
    IF text = <<>> \/ \E j \in 1..Len(text) : text[j] \notin Digits
    THEN [val |-> 0, err |-> "strconv.ParseInt: invalid syntax"]
    ELSE [val |-> DecVal(text), err |-> ""]

\* strconv.ParseFloat(text, 64) of the same text: one dot at most and a digit
\* at least; the texts drawn here have no fractional digit other than 0, so the
\* value is the integral part
ParseFloat(text) ==
    LET dots == {j \in 1..Len(text) : text[j] = "."}
        d == IF dots = {} THEN Len(text) + 1 ELSE CHOOSE j \in dots : TRUE IN
    IF Cardinality(dots) > 1 \/ Len(text) - Cardinality(dots) = 0
    THEN [val |-> 0, err |-> "strconv.ParseFloat: invalid syntax"]
    ELSE [val |-> DecVal(SubSeq(text, 1, d - 1)), err |-> ""]

-----------------------------------------------------------------------------
(* Parser: parser.go.  The parser is [toks, pos, tok, n]: the scanner's tokens
   and position, and the push-back buffer buf.tok, buf.n *)

newParser(toks) == [toks |-> toks, pos |-> 1, tok |-> Tok("IllegalTok", <<>>), n |-> 0]

scan(p) ==
    IF p.n > 0 THEN [tok |-> p.tok, p |-> [p EXCEPT !.n = 0]]
    ELSE LET t == IF p.pos <= Len(p.toks) THEN p.toks[p.pos] ELSE tEOF IN
         [tok |-> t, p |-> [p EXCEPT !.tok = t, !.pos = p.pos + 1]]

\* mutant: the token is not pushed back
unscanNothing(p) == p

unscan(p) == [p EXCEPT !.n = 1]

\* what a parse function returns: the filter, the error ("" is nil), the parser
PRes(f, e, p) == [f |-> f, err |-> e, p |-> p]

\* The parse functions call one another through parse, which dispatches on the
\* name of the function called: every cycle of calls passes through it
RECURSIVE parse(_)

Length == <<"l", "e", "n", "g", "t", "h">>

parseTextFilter(t) == IF t[2] = Length THEN fLength ELSE fStringLiteral(t[2])

readSelectorLoop(p0, sel) ==
    LET s == scan(p0)
        t == s.tok
        p == s.p
    IN
    CASE t[1] = "tDot" -> parse(<<"readSelectorLoop", p, Append(sel, fIdentity)>>)
      [] t[1] = "tText" -> parse(<<"readSelectorLoop", p, Append(sel, fKeySelector(t[2]))>>)
      [] t[1] = "tLeftBracket" ->
            LET r == parse(<<"parseSliceFilterLoop", p, 0, 0, FALSE, TRUE>>) IN
            IF r.err # "" THEN PRes(NilFilter, r.err, r.p)
            ELSE parse(<<"readSelectorLoop", r.p, Append(sel, r.f)>>)
      [] OTHER -> PRes(fSelector(sel), "", unscan(p))

readSelector(p) == parse(<<"readSelectorLoop", p, <<>>>>)

parseSliceFilterLoop(p0, start, stop, hasColon, empty) ==
    LET s == scan(p0)
        t == s.tok
        p == s.p
    IN
    CASE t[1] = "tNumber" ->
            LET num == ParseInt(t[2]) IN
            IF num.err # "" THEN PRes(NilFilter, num.err, p)
            ELSE IF ~hasColon THEN parse(<<"parseSliceFilterLoop", p, num.val, stop, hasColon, FALSE>>)
            ELSE parse(<<"parseSliceFilterLoop", p, start, num.val, hasColon, FALSE>>)
      [] t[1] = "tColon" -> parse(<<"parseSliceFilterLoop", p, start, stop, TRUE, FALSE>>)
      [] t[1] = "tLeftBracket" -> parse(<<"parseSliceFilterLoop", p, start, stop, hasColon, empty>>)
      [] t[1] = "tRightBracket" ->
            IF ~hasColon /\ ~empty THEN PRes(fIndexSelector(start), "", p)
            ELSE IF empty THEN PRes(fIterateAllSeletor, "", p)
            ELSE PRes(fIndexRangeSelector(start, stop, FALSE), "", p)
      [] OTHER ->
            IF hasColon THEN PRes(NilFilter, "unexpected token", p)
            ELSE parse(<<"completeArrayMapLoop", unscan(p),
                    IF start # 0 THEN <<fNumericLiteral(start)>> ELSE <<>>>>)

parseSliceFilter(p) == parse(<<"parseSliceFilterLoop", p, 0, 0, FALSE, TRUE>>)

\* completeArrayMap: cursor is appended at the top of the next iteration, which
\* every path from the default case reaches
completeArrayMapLoop(p0, am) ==
    LET s == scan(p0)
        t == s.tok
        p == s.p
    IN
    CASE t[1] = "tRightBracket" -> PRes(fSlice(am), "", p)
      [] t[1] = "tComma" -> parse(<<"completeArrayMapLoop", p, am>>)
      [] t[1] = "tEOF" -> PRes(fSlice(am), "", unscan(p))
      [] OTHER ->
            LET r == parse(<<"readOneFilter", unscan(p)>>) IN
            IF r.err # "" THEN PRes(NilFilter, r.err, r.p)
            ELSE parse(<<"completeArrayMapLoop", r.p, IF r.f # NilFilter THEN Append(am, r.f) ELSE am>>)

completeArrayMap(p, am) == parse(<<"completeArrayMapLoop", p, am>>)

parseObjectMapLoop(p0, objf, key) ==
    LET s == scan(p0)
        t == s.tok
        p == s.p
    IN
    CASE t[1] = "tText" ->
            IF key # <<>> THEN PRes(NilFilter, "unexpected string", p)
            ELSE parse(<<"parseObjectMapLoop", p, objf, t[2]>>)
      [] t[1] = "tColon" ->
            LET r == parse(<<"readOneFilter", p>>) IN
            IF r.err # "" THEN PRes(NilFilter, r.err, r.p)
            ELSE parse(<<"parseObjectMapLoop", r.p,
                    [x \in DOMAIN objf \cup {key} |-> IF x = key THEN r.f ELSE objf[x]], key>>)
      [] t[1] = "tComma" -> parse(<<"parseObjectMapLoop", p, objf, <<>>>>)
      [] t[1] = "tRightBrace" -> PRes(fObjectMapping(objf), "", p)
      [] OTHER -> PRes(NilFilter, "unexpected token", p)

parseObjectMap(p) == parse(<<"parseObjectMapLoop", p, <<>>, <<>>>>)

parseBinaryOp(p, left, t) ==
    LET r == parse(<<"readFilterLoop", p, NilFilter, <<>>>>) IN
    PRes(fBinaryOp(left, t[1], r.f), r.err, r.p)

readOneFilter(p0) ==
    LET s == scan(p0)
        t == s.tok
        p == s.p
    IN
    CASE t[1] = "tDot" -> readSelector(unscan(p))
      [] t[1] = "tNumber" ->
            LET num == ParseFloat(t[2]) IN
            IF num.err # "" THEN PRes(NilFilter, num.err, p)
            ELSE PRes(fNumericLiteral(num.val), "", p)
      [] t[1] \in {"tStar", "tPlus", "tMinus"} -> parse(<<"parseBinaryOp", p, NilFilter, t>>)
      [] t[1] = "tLeftBracket" -> parseSliceFilter(p)
      [] t[1] = "tLeftBrace" -> parseObjectMap(p)
      [] t[1] = "tText" -> PRes(parseTextFilter(t), "", p)
      [] OTHER -> PRes(NilFilter, "unexpected token", unscan(p))

readFilterLoop(p0, f, fs) ==
    LET s == scan(p0)
        t == s.tok
        p == s.p
    IN
    CASE t[1] = "tDot" ->
            LET r == readSelector(unscan(p)) IN
            IF r.err # "" THEN r ELSE parse(<<"readFilterLoop", r.p, r.f, fs>>)
      [] t[1] = "tNumber" ->
            LET num == ParseFloat(t[2]) IN
            IF num.err # "" THEN PRes(NilFilter, num.err, p)
            ELSE parse(<<"readFilterLoop", p, fNumericLiteral(num.val), fs>>)
      [] t[1] \in {"tStar", "tPlus", "tMinus"} ->
            LET r == parse(<<"parseBinaryOp", p, f, t>>) IN
            IF r.err # "" THEN r ELSE parse(<<"readFilterLoop", r.p, r.f, fs>>)
      [] t[1] = "tLeftBracket" ->
            LET r == parseSliceFilter(p) IN
            IF r.err # "" THEN PRes(NilFilter, r.err, r.p) ELSE parse(<<"readFilterLoop", r.p, r.f, fs>>)
      [] t[1] = "tLeftBrace" -> parseObjectMap(p)
      [] t[1] = "tText" -> parse(<<"readFilterLoop", p, parseTextFilter(t), fs>>)
      [] t[1] = "tComma" -> PRes(fSlice(Append(fs, f)), "", p)
      [] t[1] = "tPipe" ->
            IF Len(fs) > 0 THEN PRes(fSlice(Append(fs, f)), "", p) ELSE PRes(f, "", p)
      [] t[1] = "tEOF" ->
            IF Len(fs) > 0 THEN PRes(fSlice(Append(fs, f)), "EOF", p) ELSE PRes(f, "EOF", p)
      [] OTHER -> parse(<<"readFilterLoop", p, f, fs>>)

readFilter(p) == parse(<<"readFilterLoop", p, NilFilter, <<>>>>)

\* parser.filters: the stages, or the error
filtersLoop(p, fs) ==
    LET r == readFilter(p)
        fs2 == IF r.f # NilFilter THEN Append(fs, r.f) ELSE fs
    IN
    IF r.err # ""
    THEN IF r.err = "EOF" THEN [fs |-> fs2, err |-> "", p |-> r.p]
         ELSE [fs |-> <<>>, err |-> r.err, p |-> r.p]
    ELSE parse(<<"filtersLoop", r.p, fs2>>)

parse(call) ==
    CASE call[1] = "readSelectorLoop" -> readSelectorLoop(call[2], call[3])
      [] call[1] = "parseSliceFilterLoop" ->
            parseSliceFilterLoop(call[2], call[3], call[4], call[5], call[6])
      [] call[1] = "completeArrayMapLoop" -> completeArrayMapLoop(call[2], call[3])
      [] call[1] = "parseObjectMapLoop" -> parseObjectMapLoop(call[2], call[3], call[4])
      [] call[1] = "parseBinaryOp" -> parseBinaryOp(call[2], call[3], call[4])
      [] call[1] = "readOneFilter" -> readOneFilter(call[2])
      [] call[1] = "readFilterLoop" -> readFilterLoop(call[2], call[3], call[4])
      [] call[1] = "filtersLoop" -> filtersLoop(call[2], call[3])

parserFilters(p) == parse(<<"filtersLoop", p, <<>>>>)


-----------------------------------------------------------------------------
(* Filter sources, as the tokens scanner.Scan yields for them *)

Digit(n) ==
    CASE n = 0 -> "0" [] n = 1 -> "1" [] n = 2 -> "2" [] n = 3 -> "3" [] n = 4 -> "4"
      [] n = 5 -> "5" [] n = 6 -> "6" [] n = 7 -> "7" [] n = 8 -> "8" [] n = 9 -> "9"

\* the decimal text of a number below 100
NumText(n) == IF n < 10 THEN <<Digit(n)>> ELSE <<Digit(n \div 10), Digit(n % 10)>>

Num(n) == tNumber(NumText(n))

SrcIdentity       == <<tDot>>
SrcKey(name)      == <<tDot, tText(name)>>
SrcIndex(n)       == <<tDot, tLeftBracket, Num(n), tRightBracket>>
SrcRange(a, b)    == <<tDot, tLeftBracket, Num(a), tColon, Num(b), tRightBracket>>
SrcRangeFrom(a)   == <<tDot, tLeftBracket, Num(a), tColon, tRightBracket>>
SrcRangeTo(b)     == <<tDot, tLeftBracket, tColon, Num(b), tRightBracket>>
SrcRangeAll       == <<tDot, tLeftBracket, tColon, tRightBracket>>
SrcIterateAll     == <<tDot, tLeftBracket, tRightBracket>>
SrcLength         == <<tText(Length)>>
SrcNumber(n)      == <<Num(n)>>
SrcString(s)      == <<tText(s)>>
SrcChain(s1, s2)  == s1 \o Tail(s2)
SrcPipe(s1, s2)   == s1 \o <<tPipe>> \o s2
SrcBinary(s1, op, s2) == s1 \o <<op>> \o s2

RECURSIVE Join(_, _)
Join(ss, sep) ==
    IF ss = <<>> THEN <<>>
    ELSE IF Len(ss) = 1 THEN ss[1]
    ELSE ss[1] \o <<sep>> \o Join(Tail(ss), sep)

SrcArray(ss)      == <<tLeftBracket>> \o Join(ss, tComma) \o <<tRightBracket>>
SrcObject(ks, ss) ==
    <<tLeftBrace>> \o Join([j \in 1..Len(ss) |-> <<tText(ks[j]), tColon>> \o ss[j]], tComma)
        \o <<tRightBrace>>

MaxSubs == 2       \* most sub-filters of an array construction or object mapping

\* the sub-filters of array constructions and object mappings
SubSources ==
    {SrcKey(<<"a">>), SrcLength, SrcIndex(0), SrcRangeFrom(1), SrcIterateAll}

\* the operands of binary operations
Operands ==
    {SrcKey(<<"a">>), SrcKey(<<"b">>), SrcNumber(1), SrcNumber(2), SrcLength}

KeySeqs == {<<<<"a">>>>, <<<<"b">>>>, <<<<"a">>, <<"b">>>>, <<<<"b">>, <<"a">>>>}

\* one of each filter node, to follow .[] in a pipeline
StreamStages ==
    {SrcString(<<"a">>), SrcNumber(1), SrcLength, SrcIdentity, SrcKey(<<"a">>), SrcIndex(0),
     SrcRange(0, 1), SrcBinary(SrcKey(<<"a">>), tStar, SrcNumber(2)),
     SrcArray(<<SrcKey(<<"a">>)>>), SrcObject(<<<<"a">>>>, <<SrcLength>>)}

\* pipelines and selector chains whose first stage or step can fail
FailingPipes ==
    {SrcPipe(s, SrcLength) : s \in {SrcKey(<<"a">>), SrcIndex(0), SrcRange(0, 1), SrcLength}}
      \cup {SrcChain(SrcIndex(0), SrcKey(<<"a">>)), SrcChain(SrcRange(0, 1), SrcIndex(0)),
            SrcChain(SrcKey(<<"a">>), SrcIndex(0))}

Sources ==
    {SrcIdentity, SrcLength, SrcIterateAll, SrcRangeAll}
      \cup {SrcPipe(SrcIterateAll, s) : s \in StreamStages}
      \cup FailingPipes
      \cup {SrcKey(name) : name \in Keys}
      \cup {SrcIndex(n) : n \in 0..MaxLen}
      \cup {SrcRange(a, b) : a \in 0..MaxLen, b \in 0..MaxLen}
      \cup {SrcRangeFrom(a) : a \in 0..MaxLen}
      \cup {SrcRangeTo(b) : b \in 0..MaxLen}
      \cup {SrcArray(ss) : ss \in SeqsUpTo(SubSources, MaxSubs) \ {<<>>}}
      \cup UNION {{SrcObject(ks, ss) : ss \in [1..Len(ks) -> SubSources]} :
                        ks \in {x \in KeySeqs : Len(x) <= MaxSubs}}
      \cup {SrcBinary(s1, op, s2) : s1 \in Operands, op \in {tStar, tPlus, tMinus},
                                    s2 \in Operands}

-----------------------------------------------------------------------------
(* Source values and the objects behind them *)

\* the elements of ordered sequences
Elems ==
    {Null, IntV(1), StrV(<<"a", "b">>), MapV([x \in {<<"a">>} |-> StrV(<<"b">>)]),
     SliceV(<<StrV(<<"a">>)>>)}

\* the values of mappings
MapVals == {Null, IntV(2), FloatV(1), StrV(<<"a">>)}

Maps == UNION {[D -> MapVals] : D \in SUBSET Keys}

RawValues ==
    Scalars
      \cup {BytesV(s) : s \in SeqsUpTo(Chars, MaxLen)}
      \cup {SliceV(s) : s \in SeqsUpTo(Elems, MaxLen)}
      \cup {MapV(m) : m \in Maps}
      \cup {IMapV(m) : m \in {<<>>, [x \in {<<"a">>} |-> IntV(2)]}}

NoIterator ==
    [i |-> -1, values |-> <<>>, closes |-> 0, fault |-> "none"]
NoReader ==
    [data |-> <<>>, pos |-> 0, closes |-> 0, fault |-> FALSE]
NoHeap ==
    [it |-> NoIterator, rd |-> NoReader, resolveErr |-> FALSE, resolved |-> Null,
     order |-> FALSE]

IterValues == {IntV(1), StrV(<<"a", "b">>)}

\* a source value with the objects it points to
Envs ==
    {[source |-> v, heap |-> NoHeap] : v \in RawValues}
      \cup {[source |-> IteratorV,
             heap |-> [NoHeap EXCEPT !.it = [NoIterator EXCEPT !.values = vs, !.fault = ft]]] :
                vs \in SeqsUpTo(IterValues, MaxLen), ft \in {"none", "scan", "close"}}
      \cup {[source |-> ReadCloserV,
             heap |-> [NoHeap EXCEPT !.rd = [NoReader EXCEPT !.data = d, !.fault = ft]]] :
                d \in SeqsUpTo(Chars, MaxLen), ft \in BOOLEAN}
      \cup {[source |-> LinkV(<<"a">>),
             heap |-> [NoHeap EXCEPT !.resolveErr = re, !.resolved = v]] :
                re \in BOOLEAN,
                v \in {SliceV(<<IntV(1)>>), MapV([x \in {<<"a">>} |-> IntV(2)])}}

HasBrace(s) == \E j \in 1..Len(s) : s[j] = tLeftBrace

-----------------------------------------------------------------------------
(* Filter.Apply: filter.go lines 29-49 *)

FiltInit ==
    \E s \in Sources, e \in Envs, o \in BOOLEAN :
        /\ o => HasBrace(s)
        /\ src = s
        /\ source = e.source
        /\ heap = [e.heap EXCEPT !.order = o]
        /\ filters = <<>>
        /\ k = 0
        /\ val = Null
        /\ err = ""
        /\ pc = "parse"

\* p.filters(); a parse error returns before anything is evaluated
Parse ==
    /\ pc = "parse"
    /\ LET r == parserFilters(newParser(src)) IN
        IF r.err # ""
        THEN /\ err' = r.err
             /\ pc' = "done"
             /\ UNCHANGED <<filters, val>>
        ELSE /\ filters' = r.fs
             /\ val' = source
             /\ pc' = "apply"
             /\ UNCHANGED err
    /\ UNCHANGED <<src, source, heap, k, linkVars, iterVars>>

\* one turn of the loop over the stages; a panic ends the program
ApplyStage ==
    /\ pc = "apply"
    /\ k < Len(filters)
    /\ LET r == apply(filters[k + 1], val, heap) IN
        /\ val' = r.out
        /\ err' = r.err
        /\ heap' = r.h
        /\ pc' = IF IsPanic(r.err) THEN "panic" ELSE IF r.err # "" THEN "done" ELSE "apply"
        /\ k' = IF r.err # "" THEN k ELSE k + 1
    /\ UNCHANGED <<src, source, filters, linkVars, iterVars>>

\* return unpackValueStreams(val)
Unpack ==
    /\ pc = "apply"
    /\ k = Len(filters)
    /\ val' = unpackValueStreams(val)
    /\ pc' = "done"
    /\ UNCHANGED <<src, source, heap, filters, k, err, linkVars, iterVars>>

-----------------------------------------------------------------------------
(* Specifications *)

LinkIdle == lnk = NewLink(<<>>) /\ lpath = <<>> /\ lret = <<"none">>
IterIdle == itr = NewIterator(<<>>) /\ dest = Null /\ iret = <<"none">>
              /\ nTrue = 0 /\ closes = 0
FiltIdle == src = <<>> /\ source = Null /\ heap = <<>> /\ filters = <<>>
              /\ k = 0 /\ val = Null /\ err = "" /\ pc = "idle"

InitLink == LinkInit /\ IterIdle /\ FiltIdle
NextLink == CallPath \/ CallValue \/ CallResolved
SpecLink == InitLink /\ [][NextLink]_vars

InitIter == IterInit /\ LinkIdle /\ FiltIdle
NextIter == CallNext \/ CallScan \/ CallKey \/ CallClose
SpecIter == InitIter /\ [][NextIter]_vars

Init == FiltInit /\ LinkIdle /\ IterIdle
Next == Parse \/ ApplyStage \/ Unpack
Spec == Init /\ [][Next]_vars

\* The parser over arbitrary token sequences: every sequence of up to MaxToks
\* tokens, and the comma lists, pipelines and bracket expressions built from
\* a few expressions, each applied to one mapping or one sequence
MaxToks == 3

Tokens ==
    {tDot, tComma, tColon, tPipe, tLeftBracket, tRightBracket, tLeftBrace, tRightBrace,
     tStar, tText(<<"a">>), tText(Length), Num(1), Tok("IllegalTok", <<>>)}

ListItems == {SrcKey(<<"a">>), SrcKey(<<"b">>), SrcLength}

CommaLists == {Join(ss, tComma) : ss \in SeqsUpTo(ListItems, 3) \ SeqsUpTo(ListItems, 1)}

PipeItems ==
    {SrcKey(<<"a">>), SrcLength, SrcIndex(0), SrcBinary(SrcKey(<<"a">>), tStar, SrcNumber(2))}

PipeLists == {Join(ss, tPipe) : ss \in SeqsUpTo(PipeItems, 3) \ {<<>>}}

BracketItems == {SrcKey(<<"a">>), SrcLength, SrcNumber(1)}

BracketLists ==
    {SrcArray(<<SrcNumber(n)>> \o ss) :
        n \in 0..MaxNum, ss \in SeqsUpTo(BracketItems, 2) \ {<<>>}}

ParseSources == SeqsUpTo(Tokens, MaxToks) \cup CommaLists \cup PipeLists \cup BracketLists

ParseEnvs ==
    {MapV([x \in Keys |-> IF x = <<"a">> THEN IntV(2) ELSE StrV(<<"a">>)]),
     SliceV(<<StrV(<<"a", "b">>), MapV([x \in {<<"a">>} |-> StrV(<<"b">>)])>>)}

ParseInit ==
    \E s \in ParseSources, v \in ParseEnvs :
        /\ src = s
        /\ source = v
        /\ heap = NoHeap
        /\ filters = <<>>
        /\ k = 0
        /\ val = Null
        /\ err = ""
        /\ pc = "parse"

InitParse == ParseInit /\ LinkIdle /\ IterIdle
NextParse == Parse \/ ApplyStage \/ Unpack
SpecParse == InitParse /\ [][NextParse]_vars

-----------------------------------------------------------------------------
(* Claims about the value model *)

\* C7: a freshly constructed Link reports (null, resolved = false); after
\* Resolved(x) it reports (x, resolved = true); under any sequence of Path, Value
\* and Resolved calls the resolved flag never goes from true back to false, and
\* Path() keeps returning the construction path.
C7_LinkLifecycle ==
    /\ [][(lret = <<"NewLink">> /\ lret'[1] = "Value") => lret'[2] = <<Null, FALSE>>]_vars
    /\ [][(lret[1] = "Resolved" /\ lret'[1] = "Value") => lret'[2] = <<lret[2], TRUE>>]_vars
    /\ [][lnk.resolved => lnk'.resolved]_vars
    /\ [](lret[1] = "Path" => lret[2] = lpath)

C7_Witness ==
    /\ lret[1] = "Value"
    /\ lret[2][2] = TRUE
    /\ Kind(lret[2][1]) = "string"

\* C8: over an n-element source Next() returns true exactly n times and false on
\* every later call; after the k-th successful Next(), Key() is k-1 and a Scan
\* into a writable reference stores the k-th element without advancing.
C8_IteratorContract ==
    /\ [](nTrue <= Len(itr.values))
    /\ []((iret = <<"Next", FALSE>>) => nTrue = Len(itr.values))
    /\ [][(iret'[1] = "Next" /\ nTrue < Len(itr.values)) => iret' = <<"Next", TRUE>>]_vars
    /\ []((iret[1] = "Key" /\ nTrue >= 1) => iret[2] = nTrue - 1)
    /\ []((iret = <<"Scan", "">>) => (nTrue >= 1 /\ dest = itr.values[nTrue]))
    /\ [][(iret'[1] = "Scan") => (itr' = itr /\ nTrue' = nTrue)]_vars

C8_Witness ==
    /\ iret = <<"Scan", "">>
    /\ nTrue = 2
    /\ Len(itr.values) = 3
    /\ Kind(dest) = "int"

\* C9: once Close() has been called on an Iterator, at any cursor position,
\* every subsequent Next() returns false.
C9_NextFalseAfterClose ==
    [][closes >= 1 => nTrue' = nTrue]_vars

-----------------------------------------------------------------------------
(* Claims about Filter.Apply *)

\* Filter.Apply has returned or the program has crashed
Returned == pc \in {"done", "panic"}

\* the stage a sub-expression parses to
FilterOf(s) == parserFilters(newParser(s)).fs[1]

\* the number of elements, characters or keys of a container
Size(v) == IF Kind(v) \in {"map[string]interface{}", "map[interface{}]interface{}"}
           THEN Cardinality(DOMAIN Val(v))
           ELSE Len(Val(v))

\* C1: the key-selector .name over a mapping returns the value under name, or
\* null without error when the key is absent; over a sequence of n elements it
\* returns a sequence of length n whose i-th element is the key-selector applied
\* to the i-th input element; over a scalar or null it returns null without error.
C1_KeySelector ==
    \A name \in Keys :
        (Returned /\ src = SrcKey(name) /\ source \in RawValues) =>
            /\ pc = "done"
            /\ err = ""
            /\ CASE Kind(source) \in {"map[string]interface{}", "map[interface{}]interface{}"} ->
                        IF name \in DOMAIN Val(source)
                        THEN val = Val(source)[name]
                        ELSE val = Null
                 [] Kind(source) = "[]interface{}" ->
                        /\ Kind(val) = "[]interface{}"
                        /\ Len(Val(val)) = Len(Val(source))
                        /\ \A i \in 1..Len(Val(source)) :
                               Val(val)[i] = apply(fKeySelector(name), Val(source)[i], NoHeap).out
                 [] OTHER -> val = Null

C1_Witness ==
    /\ pc = "done"
    /\ src = SrcKey(<<"a">>)
    /\ source = SliceV(<<MapV([x \in {<<"a">>} |-> StrV(<<"b">>)]), IntV(1)>>)
    /\ val = SliceV(<<StrV(<<"b">>), Null>>)

\* C2: the range selectors .[a:b], .[a:] and .[:b] over a string, byte sequence
\* or ordered sequence of length n, with 0 <= a <= b <= n, return the elements
\* at positions a up to but not including b, an omitted a meaning 0 and an
\* omitted b meaning n.
C2_RangeMatchesNativeSlice ==
    \A a \in 0..MaxLen, b \in 0..MaxLen :
        (/\ Returned
         /\ Kind(source) \in {"string", "[]byte", "[]interface{}"}
         /\ \/ src = SrcRange(a, b)
            \/ src = SrcRangeFrom(a) /\ b = Len(Val(source))
            \/ src = SrcRangeTo(b) /\ a = 0
         /\ a <= b
         /\ b <= Len(Val(source))) =>
            /\ pc = "done"
            /\ err = ""
            /\ val = <<Kind(source), SubSeq(Val(source), a + 1, b)>>

\* C3: length returns the element count of a sequence, the length of a string or
\* byte sequence, the number of keys of a mapping, and null without error for
\* null, boolean and numeric inputs.
C3_Length ==
    (Returned /\ src = SrcLength /\ source \in RawValues) =>
        /\ pc = "done"
        /\ err = ""
        /\ IF Kind(source) \in {"nil", "bool", "int", "float64", "byte"}
           THEN val = Null
           ELSE val = IntV(Size(source))

C3_Witness ==
    /\ pc = "done"
    /\ src = SrcLength
    /\ source = MapV([x \in Keys |-> IF x = <<"a">> THEN Null ELSE IntV(2)])
    /\ val = IntV(2)

\* C4: .[] | length over an ordered sequence of n strings, sequences and
\* mappings returns a sequence of n numbers, the i-th being the size of the i-th
\* element.
C4_IterateThenLength ==
    (/\ Returned
     /\ src = SrcPipe(SrcIterateAll, SrcLength)
     /\ Kind(source) = "[]interface{}"
     /\ \A i \in 1..Len(Val(source)) :
            Kind(Val(source)[i]) \in {"string", "[]interface{}", "map[string]interface{}"}) =>
        /\ pc = "done"
        /\ err = ""
        /\ val = SliceV([i \in 1..Len(Val(source)) |-> IntV(Size(Val(source)[i]))])

C4_Witness ==
    /\ pc = "done"
    /\ src = SrcPipe(SrcIterateAll, SrcLength)
    /\ source = SliceV(<<StrV(<<"a", "b">>), SliceV(<<StrV(<<"a">>)>>)>>)
    /\ val = SliceV(<<IntV(2), IntV(1)>>)

\* what each sub-expression of ss gives when it is applied to the source itself
SharedInput(ss) ==
    [i \in 1..Len(ss) |-> apply(FilterOf(ss[i]), source, [NoHeap EXCEPT !.order = heap.order])]

\* C5: array-construction [f1, .., fn] and object-mapping {k1: f1, .., kn: fn}
\* over an in-memory mapping or ordered sequence apply every fi to the same
\* input value: the result is the sequence, or the mapping under the keys ki, of
\* those n outputs when every fi succeeds, and an error otherwise.
C5_SubFiltersShareInput ==
    (/\ Returned
     /\ src[1] \in {tLeftBracket, tLeftBrace}
     /\ Kind(source) \in {"[]interface{}", "map[string]interface{}"}) =>
        /\ \A ss \in SeqsUpTo(SubSources, MaxSubs) \ {<<>>} :
               src = SrcArray(ss) =>
                   LET rs == SharedInput(ss) IN
                   IF \A i \in 1..Len(ss) : rs[i].err = ""
                   THEN /\ pc = "done"
                        /\ err = ""
                        /\ val = SliceV([i \in 1..Len(ss) |-> rs[i].out])
                   ELSE err # ""
        /\ \A ks \in {x \in KeySeqs : Len(x) <= MaxSubs} :
               \A ss \in [1..Len(ks) -> SubSources] :
                   src = SrcObject(ks, ss) =>
                       LET rs == SharedInput(ss) IN
                       IF \A i \in 1..Len(ss) : rs[i].err = ""
                       THEN /\ pc = "done"
                            /\ err = ""
                            /\ Kind(val) = "map[string]interface{}"
                            /\ DOMAIN Val(val) = {ks[i] : i \in 1..Len(ks)}
                            /\ \A i \in 1..Len(ks) : Val(val)[ks[i]] = rs[i].out
                       ELSE err # ""

C5_Witness ==
    /\ pc = "done"
    /\ src = SrcArray(<<SrcKey(<<"a">>), SrcLength>>)
    /\ source = MapV([x \in Keys |-> IF x = <<"a">> THEN StrV(<<"a">>) ELSE IntV(2)])
    /\ val = SliceV(<<StrV(<<"a">>), IntV(2)>>)

\* a number: an integer, a float or a numeric literal
IsNumber(v) == Kind(v) \in {"int", "float64", "fNumericLiteral"}

\* C6: a binary-op with * or + returns the product or sum when both operands
\* evaluate to numbers; for every other operand pair, a null operand produced by
\* a missing key included, and for every other operator, evaluation ends with an
\* explicit error, never with a result and never with a crash.
C6_BinaryOp ==
    \A s1 \in Operands, s2 \in Operands, op \in {tStar, tPlus, tMinus} :
        (Returned /\ src = SrcBinary(s1, op, s2) /\ source \in RawValues) =>
            LET l == apply(FilterOf(s1), source, NoHeap)
                r == apply(FilterOf(s2), source, NoHeap)
            IN  IF /\ op \in {tStar, tPlus}
                   /\ l.err = "" /\ r.err = ""
                   /\ IsNumber(l.out) /\ IsNumber(r.out)
                THEN /\ pc = "done"
                     /\ err = ""
                     /\ val = FloatV(IF op = tStar THEN Val(l.out) * Val(r.out)
                                     ELSE Val(l.out) + Val(r.out))
                ELSE /\ pc = "done"
                     /\ err # ""
                     /\ val = Null

\* C10: whenever length, an index-selector or an index-range-selector is applied
\* to an Iterator or a byte stream, that Iterator or stream has been closed
\* exactly once when the operator returns, whether it returns a value or an error.
C10_ClosedExactlyOnce ==
    (/\ Returned
     /\ \/ src = SrcLength
        \/ \E n \in 0..MaxLen : src = SrcIndex(n)
        \/ \E a \in 0..MaxLen : src \in {SrcRangeFrom(a), SrcRangeTo(a)}
        \/ \E a \in 0..MaxLen, b \in 0..MaxLen : src = SrcRange(a, b)) =>
        /\ source = IteratorV => heap.it.closes = 1
        /\ source = ReadCloserV => heap.rd.closes = 1

\* the objects behind the source as they were when Apply was called
Heap0 ==
    [heap EXCEPT !.it.i = -1, !.it.closes = 0, !.rd.pos = 0, !.rd.closes = 0]

\* steps fs[j], fs[j+1], .. applied in order, each to the output of the one
\* before it, up to and including the first one that returns an error
RECURSIVE FirstError(_, _, _, _)
FirstError(fs, j, in, h) ==
    IF j > Len(fs) THEN Res(in, "", h)
    ELSE LET r == apply(fs[j], in, h) IN
         IF r.err # "" THEN r ELSE FirstError(fs, j + 1, r.out, r.h)

\* C11: an evaluation error aborts the remaining pipeline: when stage k of a
\* pipeline, or step k of a selector chain, returns an error, no stage or step
\* after k is applied and Apply returns that error to the caller.
C11_ErrorAborts ==
    /\ [][err = ""]_vars
    /\ [](Returned /\ filters # <<>> =>
            LET r == FirstError(filters, 1, source, Heap0) IN
            (r.err # "" /\ ~IsPanic(r.err)) =>
                pc = "done" /\ err = r.err /\ val = r.out /\ heap = r.h)
    /\ [](Returned /\ filters # <<>> /\ filters[1][1] = "fSelector" =>
            LET c == FirstError(filters[1][2], 1, source, Heap0) IN
            (c.err # "" /\ ~IsPanic(c.err)) =>
                pc = "done" /\ k = 0 /\ err = c.err /\ val = c.out /\ heap = c.h)

C11_Witness ==
    /\ pc = "done"
    /\ src = SrcChain(SrcIndex(0), SrcKey(<<"a">>))
    /\ source = IteratorV
    /\ Len(heap.it.values) = 2
    /\ err = "scan"
    /\ heap.it.i = 0
    /\ k = 0

\* v is, or holds at some depth, a lazy stream
RECURSIVE HasStream(_)
HasStream(v) ==
    CASE Kind(v) = "*valueStream" -> TRUE
      [] Kind(v) = "[]interface{}" -> \E i \in 1..Len(Val(v)) : HasStream(Val(v)[i])
      [] Kind(v) \in {"map[string]interface{}", "map[interface{}]interface{}"} ->
            \E x \in DOMAIN Val(v) : HasStream(Val(v)[x])
      [] OTHER -> FALSE

\* C12: the value returned by a successful Apply contains no lazy stream at any
\* depth: not at top level, not as an element of a returned ordered sequence,
\* not as a value of a returned mapping.
C12_NoLazyStream ==
    (pc = "done" /\ err = "") => ~HasStream(val)

\* C13: every filter node, given a lazy stream of n elements, re-dispatches
\* itself once per streamed element and returns a concrete ordered sequence of n
\* elements whose i-th element is the node applied to the i-th streamed element.
C13_StreamRedispatch ==
    \A x \in StreamStages :
        (/\ src = SrcPipe(SrcIterateAll, x)
         /\ Kind(source) = "[]interface{}"
         /\ k = 2 \/ (k = 1 /\ Returned)) =>
            LET s  == Val(source)
                rs == [i \in 1..Len(s) |-> apply(FilterOf(x), s[i], NoHeap)]
            IN  IF \A i \in 1..Len(s) : rs[i].err = ""
                THEN /\ k = 2
                     /\ err = ""
                     /\ val = SliceV([i \in 1..Len(s) |-> rs[i].out])
                ELSE err # ""

\* C14: the index-range-selector .[start:stop] applied to an Iterator over a
\* sequence s skips the first start elements, then collects up to stop elements
\* in order into a concrete ordered sequence (s[start], .., s[start+stop-1],
\* truncated at the end of s), and then closes the iterator.
C14_IteratorRange ==
    \A start \in 0..MaxLen, stop \in 0..MaxLen :
        (/\ Returned
         /\ src = SrcRange(start, stop)
         /\ source = IteratorV
         /\ heap.it.fault = "none") =>
            LET s == heap.it.values IN
            /\ pc = "done"
            /\ err = ""
            /\ val = SliceV(SubSeq(s, start + 1, Min(start + stop, Len(s))))
            /\ heap.it.closes = 1

-----------------------------------------------------------------------------
(* Claims about the parser *)

\* C15: a top-level comma list e1, e2, .., en is parsed into a single pipeline
\* stage that is an implicit array of e1..en, so applying the filter to v yields
\* [e1(v), .., en(v)] rather than feeding the result of e1 into e2.
C15_CommaList ==
    \A ss \in SeqsUpTo(ListItems, 3) \ SeqsUpTo(ListItems, 1) :
        (src = Join(ss, tComma) /\ pc # "parse") =>
            LET rs == [i \in 1..Len(ss) |-> apply(FilterOf(ss[i]), source, NoHeap)] IN
            /\ filters = <<fSlice([i \in 1..Len(ss) |-> FilterOf(ss[i])])>>
            /\ (Returned /\ \A i \in 1..Len(ss) : rs[i].err = "") =>
                    /\ pc = "done"
                    /\ err = ""
                    /\ val = SliceV([i \in 1..Len(ss) |-> rs[i].out])

\* C16: for a source e1 | e2 | .. | en of well-formed filter expressions the
\* parser yields exactly n pipeline stages, the i-th being the parse of ei, in
\* source order; no expression is dropped, merged or overwritten, in particular
\* when some ei is a binary operation.
C16_PipelineStages ==
    \A ss \in SeqsUpTo(PipeItems, 3) \ {<<>>} :
        (src = Join(ss, tPipe) /\ pc # "parse") =>
            filters = [i \in 1..Len(ss) |-> FilterOf(ss[i])]

\* C17: bracket disambiguation into array construction re-injects the consumed
\* number: for every non-negative integer n, [n, e2, .., ek] parses to an array
\* construction of k elements whose first element is the numeric literal n,
\* followed by e2..ek in order.
C17_BracketReinjectsNumber ==
    \A n \in 0..MaxNum, ss \in SeqsUpTo(BracketItems, 2) \ {<<>>} :
        (src = SrcArray(<<SrcNumber(n)>> \o ss) /\ pc # "parse") =>
            filters = <<fSlice(<<fNumericLiteral(n)>>
                                  \o [i \in 1..Len(ss) |-> FilterOf(ss[i])])>>

-----------------------------------------------------------------------------
(* Claims about Iterators as sources *)

\* the source is a fresh Iterator whose Scan and Close do not fail
FreshIterator == source = IteratorV /\ heap.it.fault = "none"

\* C18: the evaluator treats an Iterator like the sequence it iterates: for
\* every ordered sequence s and every filter among .[n], .[a:b], length and
\* .[] | length, applying the filter to a fresh Iterator over s yields the same
\* outcome (the same value, or an error in both cases) as applying it to s.
C18_IteratorLikeSequence ==
    (/\ Returned
     /\ FreshIterator
     /\ \/ src \in {SrcLength, SrcPipe(SrcIterateAll, SrcLength)}
        \/ \E n \in 0..MaxLen : src = SrcIndex(n)
        \/ \E a \in 0..MaxLen, b \in 0..MaxLen : src = SrcRange(a, b)) =>
        LET r == FirstError(filters, 1, SliceV(heap.it.values), NoHeap) IN
        \/ err = "" /\ r.err = "" /\ val = unpackValueStreams(r.out)
        \/ err # "" /\ r.err # ""

-----------------------------------------------------------------------------
(* Claims about termination of the parser *)

\* what parser.filters returns for the source, with the parser it ends in
Parsed == parserFilters(newParser(src))

\* C19: parsing terminates on every finite token sequence: parser.filters
\* returns a stage list or an error, and no combination of push-back and re-scan
\* goes round without consuming a token: the scanner is asked for each token of
\* the source at most once and for the EOF after them at most once, and the
\* parser holds at most one pushed-back token.
C19_ParserTerminates ==
    /\ Parsed.p.pos - 1 <= Len(src) + 1
    /\ Parsed.p.n \in {0, 1}
    /\ Parsed.err # "" => Parsed.fs = <<>>
    /\ pc # "parse" =>
          IF Parsed.err # "" THEN pc = "done" /\ err = Parsed.err /\ filters = <<>>
          ELSE filters = Parsed.fs

C19_Witness ==
    /\ pc = "apply"
    /\ src = <<tLeftBracket, tDot, tText(<<"a">>)>>
    /\ filters = <<fSlice(<<fSelector(<<fIdentity, fKeySelector(<<"a">>)>>)>>)>>
    /\ Parsed.p.pos = 5
    /\ Parsed.p.n = 0

====
